---------------------------- MODULE Spec2Model ----------------------------
(* Model of the bootbuddy voucher utilities:                                *)
(*   src/process_template.py  - the Word-template placeholder filler        *)
(*   src/generate_voucher.py  - the fixed-layout PDF voucher renderer       *)
(* Text is a sequence of one-character strings; a run is its text, a        *)
(* paragraph is the sequence of its runs.                                   *)
EXTENDS Naturals, Sequences, FiniteSets

\* ------------------------------------------------------------------ bounds
\* most runs in a paragraph of an enumerated template
MaxRuns == 2
\* most paragraphs in an enumerated template, over all of its containers
MaxParas == 2
\* most entries of an enumerated field map
MaxKeys == 2

\* ------------------------------------------------------------ text helpers
None == "None"

Lower == {"a","b","c","d","e","f","g","h","i","j","k","l","m",
          "n","o","p","q","r","s","t","u","v","w","x","y","z"}

Upper == {"A","B","C","D","E","F","G","H","I","J","K","L","M",
          "N","O","P","Q","R","S","T","U","V","W","X","Y","Z"}

Digit == {"0","1","2","3","4","5","6","7","8","9"}

\* the character class [a-zA-Z0-9_] of PLACEHOLDER_REGEX
TokenChar(c) == c \in Lower \cup Upper \cup Digit \cup {"_"}

\* the characters str.strip() removes (those that occur in the model)
IsSpace(c) == c \in {" ", "\t", "\n"}

ToSet(s) == {s[i] : i \in 1..Len(s)}

NoDup(s) == \A i, j \in 1..Len(s) : s[i] = s[j] => i = j

\* every ordering of a finite set, as sequences
Orderings(S) == {s \in [1..Cardinality(S) -> S] : ToSet(s) = S}

RECURSIVE Concat(_)
\* "".join(parts)
Concat(parts) ==
    IF parts = <<>> THEN <<>> ELSE Head(parts) \o Concat(Tail(parts))

\* whether sub occurs in s starting at index i
OccursAt(s, sub, i) ==
    /\ i + Len(sub) - 1 <= Len(s)
    /\ \A k \in 1..Len(sub) : s[i + k - 1] = sub[k]

\* Python's `sub in s`
Contains(s, sub) == \E i \in 1..(Len(s) + 1) : OccursAt(s, sub, i)

RECURSIVE ReplaceFrom(_, _, _, _)
ReplaceFrom(s, old, new, i) ==
    IF i > Len(s) THEN <<>>
    ELSE IF OccursAt(s, old, i)
         THEN new \o ReplaceFrom(s, old, new, i + Len(old))
         ELSE <<s[i]>> \o ReplaceFrom(s, old, new, i + 1)

\* Python's s.replace(old, new) for a non-empty old: every non-overlapping
\* occurrence, leftmost first
StrReplace(s, old, new) == ReplaceFrom(s, old, new, 1)

RECURSIVE LStrip(_)
LStrip(s) == IF s # <<>> /\ IsSpace(Head(s)) THEN LStrip(Tail(s)) ELSE s

RECURSIVE RStrip(_)
RStrip(s) ==
    IF s # <<>> /\ IsSpace(s[Len(s)]) THEN RStrip(SubSeq(s, 1, Len(s) - 1)) ELSE s

\* Python's s.strip()
Strip(s) == RStrip(LStrip(s))

RECURSIVE JoinWith(_, _)
\* Python's sep.join(parts)
JoinWith(sep, parts) ==
    IF parts = <<>> THEN <<>>
    ELSE IF Len(parts) = 1 THEN parts[1]
    ELSE parts[1] \o sep \o JoinWith(sep, Tail(parts))

\* ------------------------------------------------- the placeholder pattern
RECURSIVE MatchEnd(_, _)
\* the index just past the longest run of token characters starting at i
MatchEnd(s, i) ==
    IF i <= Len(s) /\ TokenChar(s[i]) THEN MatchEnd(s, i + 1) ELSE i

\* whether PLACEHOLDER_REGEX matches at index i: "v_" and one or more
\* token characters
MatchesAt(s, i) ==
    /\ i + 2 <= Len(s)
    /\ s[i] = "v"
    /\ s[i + 1] = "_"
    /\ TokenChar(s[i + 2])

RECURSIVE FindAllFrom(_, _)
FindAllFrom(s, i) ==
    IF i > Len(s) THEN <<>>
    ELSE IF MatchesAt(s, i)
         THEN <<SubSeq(s, i, MatchEnd(s, i + 2) - 1)>>
                  \o FindAllFrom(s, MatchEnd(s, i + 2))
         ELSE FindAllFrom(s, i + 1)

\* PLACEHOLDER_REGEX.findall(s): the non-overlapping greedy matches, in order
PLACEHOLDER_REGEX_findall(s) == FindAllFrom(s, 1)

\* find_placeholders_in_runs(runs)
find_placeholders_in_runs(runs) == PLACEHOLDER_REGEX_findall(Concat(runs))

\* -------------------------------------------------------- document tree
\* An element (the document body, a table cell, a header, a footer) holds
\* paragraphs and tables; a table is a sequence of rows, a row a sequence of
\* cells, and a cell is an element again.
EmptyElement == [paragraphs |-> <<>>, tables |-> <<>>]

RECURSIVE search_element(_)
\* search_element(element): the placeholders of its paragraphs and, through
\* the cells of its tables, of every nested element
search_element(element) ==
    UNION {ToSet(find_placeholders_in_runs(element.paragraphs[i])) :
               i \in 1..Len(element.paragraphs)}
    \cup UNION {UNION {UNION {search_element(element.tables[t][r][c]) :
                                  c \in 1..Len(element.tables[t][r])} :
                           r \in 1..Len(element.tables[t])} :
                    t \in 1..Len(element.tables)}

\* the set find_placeholders accumulates over body, headers, footers and
\* text boxes of a document
find_placeholders(document) ==
    search_element(document.body)
    \cup UNION {search_element(document.sections[i].header)
                    \cup search_element(document.sections[i].footer) :
                    i \in 1..Len(document.sections)}
    \cup UNION {UNION {ToSet(find_placeholders_in_runs(document.txbx[b][i])) :
                           i \in 1..Len(document.txbx[b])} :
                    b \in 1..Len(document.txbx)}

\* ------------------------------------------------------------ substitution
\* A field map is a sequence of <<key, value>> pairs with distinct keys: a
\* dict in its iteration order.
Keys(d) == {d[i][1] : i \in 1..Len(d)}

RECURSIVE replace_each_key(_, _)
\* the loop over data.items(): each key that occurs is replaced everywhere by
\* its value, one key after the other, each on the result of the one before
replace_each_key(full_text, items) ==
    IF items = <<>> THEN full_text
    ELSE LET key == items[1][1]
             value == items[1][2]
         IN replace_each_key(
                IF Contains(full_text, key)
                THEN StrReplace(full_text, key, value)
                ELSE full_text,
                Tail(items))

\* a rewrite that forgets to clear the runs after the first
overwrite_first_only(runs, full_text) ==
    IF runs # <<>>
    THEN [i \in 1..Len(runs) |-> IF i = 1 THEN full_text ELSE runs[i]]
    ELSE runs

\* the paragraph's runs once a replacement fired: the first run carries the
\* whole text and the others are cleared
overwrite_runs(runs, full_text) ==
    IF runs # <<>>
    THEN [i \in 1..Len(runs) |-> IF i = 1 THEN full_text ELSE <<>>]
    ELSE runs

\* replace_text_in_runs(runs, data): the runs it leaves
replace_text_in_runs(runs, d) ==
    LET full_text == Concat(runs)
    IN IF \E i \in 1..Len(d) : Contains(full_text, d[i][1])
       THEN overwrite_runs(runs, replace_each_key(full_text, d))
       ELSE runs

RECURSIVE replace_in_element(_, _)
\* replace_in_element(element): every paragraph, and every cell of every table
replace_in_element(element, d) ==
    [paragraphs |-> [i \in 1..Len(element.paragraphs) |->
                        replace_text_in_runs(element.paragraphs[i], d)],
     tables |-> [t \in 1..Len(element.tables) |->
                   [r \in 1..Len(element.tables[t]) |->
                      [c \in 1..Len(element.tables[t][r]) |->
                         replace_in_element(element.tables[t][r][c], d)]]]]

\* the loop over doc.sections
replace_in_sections(sections, d) ==
    [i \in 1..Len(sections) |->
        [header |-> replace_in_element(sections[i].header, d),
         footer |-> replace_in_element(sections[i].footer, d)]]

\* the loop over the w:txbxContent elements and their paragraphs
replace_in_text_boxes(txbx, d) ==
    [b \in 1..Len(txbx) |->
        [i \in 1..Len(txbx[b]) |-> replace_text_in_runs(txbx[b][i], d)]]

\* Paragraph.text
ParagraphText(para) == Concat(para)

\* a trailing-paragraph test that forgets to strip whitespace
last_paragraph_has_no_text(paragraphs) ==
    /\ paragraphs # <<>>
    /\ ParagraphText(paragraphs[Len(paragraphs)]) = <<>>

\* whether the trailing-paragraph test of the rewrite holds
last_paragraph_is_empty(paragraphs) ==
    /\ paragraphs # <<>>
    /\ Strip(ParagraphText(paragraphs[Len(paragraphs)])) = <<>>

\* the body paragraphs after the trailing-paragraph removal
remove_trailing_paragraph(paragraphs) ==
    IF last_paragraph_is_empty(paragraphs)
    THEN SubSeq(paragraphs, 1, Len(paragraphs) - 1)
    ELSE paragraphs

\* a check that reports the first missing placeholder only
missing_keys_first_only(placeholder_list, d) ==
    LET all == SelectSeq(placeholder_list, LAMBDA p : p \notin Keys(d))
    IN SubSeq(all, 1, IF all = <<>> THEN 0 ELSE 1)

\* a check that compares against nothing: no placeholder is ever missing
missing_keys_unchecked(placeholder_list, d) == <<>>

\* the placeholders of the list that have no key in the field map
missing_keys_of(placeholder_list, d) ==
    SelectSeq(placeholder_list, LAMBDA p : p \notin Keys(d))

MissingPrefix ==
    <<"M","i","s","s","i","n","g"," ","d","a","t","a"," ","f","o","r"," ",
      "p","l","a","c","e","h","o","l","d","e","r","s",":"," ">>

\* the text of the ValueError
missing_message(missing_keys) == MissingPrefix \o JoinWith(<<",", " ">>, missing_keys)

\* ------------------------------------------------------------------- state
VARIABLES
    template,               \* the document stored at template_path
    data,                   \* the field map handed to the filler
    pc,                     \* where the filler's run stands
    placeholders,           \* the list the analysis of the template printed
    placeholders_in_doc,    \* the list replace_placeholders_and_convert scanned
    message,                \* the text of the raised ValueError, <<>> if none
    doc,                    \* <<the document being edited>>, <<>> before it is opened
    output_docx,            \* <<the document saved at output_docx>>, <<>> if none
    output_pdf,             \* <<the document the converter rendered>>, <<>> if none
    conversion_error,       \* whether "Error during PDF conversion" was printed
    remaining_placeholders, \* the list the verification of the output found
    vdata,                  \* the voucher's field map
    vpc,                    \* where create_voucher stands
    vstep,                  \* the index of the next value to draw
    drawn,                  \* the statements executed so far, in order
    verror,                 \* <<"KeyError", key>> once raised, <<>> before
    filename,               \* the file name the canvas was created with
    saved                   \* <<the file name>> once the canvas is saved

tvars == <<template, data, pc, placeholders, placeholders_in_doc, message, doc,
           output_docx, output_pdf, conversion_error, remaining_placeholders>>

vvars == <<vdata, vpc, vstep, drawn, verror, filename, saved>>

vars == <<tvars, vvars>>

\* --------------------------------------------------- enumerated templates
RunTexts == {<<"v", "_">>, <<"a">>, <<"v", "_", "a">>, <<" ">>}

Values == {<<>>, <<"v", "_">>}

\* a key a caller may supply beyond the tokens of the template
ExtraKeys == {<<"v", "_", "a">>}

Paragraphs == UNION {[1..n -> RunTexts] : n \in 0..MaxRuns}

Places == {"cell", "nested", "header", "footer", "txbx"}

ElementWith(paras, tables) == [paragraphs |-> paras, tables |-> tables]

\* a table of one row with one cell
TableOf(cell) == << <<cell>> >>

\* a document with the given body paragraphs and, when other = <<place, p>>,
\* paragraph p in a table cell, a nested table cell, the header, the footer
\* or a text box
MkTemplate(body, other) ==
    LET at(place) == other # <<>> /\ other[1] = place
        one == ElementWith(<<other[2]>>, <<>>)
    IN [body |->
            ElementWith(body,
                IF at("cell") THEN <<TableOf(one)>>
                ELSE IF at("nested")
                     THEN <<TableOf(ElementWith(<<>>, <<TableOf(one)>>))>>
                     ELSE <<>>),
        sections |->
            <<[header |-> IF at("header") THEN one ELSE EmptyElement,
               footer |-> IF at("footer") THEN one ELSE EmptyElement]>>,
        txbx |-> IF at("txbx") THEN << <<other[2]>> >> ELSE <<>>]

Templates ==
    {MkTemplate(b, <<>>) : b \in UNION {[1..n -> Paragraphs] : n \in 0..MaxParas}}
    \cup {MkTemplate(b, o) :
              b \in UNION {[1..n -> Paragraphs] : n \in 0..(MaxParas - 1)},
              o \in Places \X Paragraphs}

FieldMaps(T) ==
    LET U == find_placeholders(T) \cup ExtraKeys
    IN UNION {{d \in [1..n -> U \X Values] :
                   \A i, j \in 1..n : d[i][1] = d[j][1] => i = j} :
                  n \in 0..MaxKeys}

\* ------------------------------------------------------ the template filler
TIdle ==
    /\ template = MkTemplate(<<>>, <<>>)
    /\ data = <<>>
    /\ pc = "idle"
    /\ placeholders = <<>>
    /\ placeholders_in_doc = <<>>
    /\ message = <<>>
    /\ doc = <<>>
    /\ output_docx = <<>>
    /\ output_pdf = <<>>
    /\ conversion_error = FALSE
    /\ remaining_placeholders = <<>>

TInit ==
    /\ template \in Templates
    /\ data \in FieldMaps(template)
    /\ pc = "analyze"
    /\ placeholders = <<>>
    /\ placeholders_in_doc = <<>>
    /\ message = <<>>
    /\ doc = <<>>
    /\ output_docx = <<>>
    /\ output_pdf = <<>>
    /\ conversion_error = FALSE
    /\ remaining_placeholders = <<>>

\* a scan that writes each body paragraph back with its runs joined
MainAnalyzeJoiningRuns ==
    /\ pc = "analyze"
    /\ placeholders' \in Orderings(find_placeholders(template))
    /\ template' = [template EXCEPT !.body.paragraphs =
                       [i \in 1..Len(@) |-> overwrite_runs(@[i], Concat(@[i]))]]
    /\ pc' = "scan"
    /\ UNCHANGED vvars
    /\ UNCHANGED <<data, placeholders_in_doc, message, doc,
                   output_docx, output_pdf, conversion_error,
                   remaining_placeholders>>

\* placeholders = find_placeholders(template_file): the set, as a list in
\* whatever order the set iterates
MainAnalyze ==
    /\ pc = "analyze"
    /\ placeholders' \in Orderings(find_placeholders(template))
    /\ pc' = "scan"
    /\ UNCHANGED vvars
    /\ UNCHANGED <<template, data, placeholders_in_doc, message, doc,
                   output_docx, output_pdf, conversion_error,
                   remaining_placeholders>>

\* placeholders_in_doc = find_placeholders(template_path)
ScanTemplate ==
    /\ pc = "scan"
    /\ placeholders_in_doc' \in Orderings(find_placeholders(template))
    /\ pc' = "check"
    /\ UNCHANGED vvars
    /\ UNCHANGED <<template, data, placeholders, message, doc, output_docx,
                   output_pdf, conversion_error, remaining_placeholders>>

\* raise ValueError(...) when a discovered placeholder has no key
RaiseMissing ==
    /\ pc = "check"
    /\ missing_keys_of(placeholders_in_doc, data) # <<>>
    /\ message' = missing_message(missing_keys_of(placeholders_in_doc, data))
    /\ pc' = "ValueError"
    /\ UNCHANGED vvars
    /\ UNCHANGED <<template, data, placeholders, placeholders_in_doc, doc,
                   output_docx, output_pdf, conversion_error,
                   remaining_placeholders>>

\* doc = Document(template_path), reached when nothing is missing
OpenTemplate ==
    /\ pc = "check"
    /\ missing_keys_of(placeholders_in_doc, data) = <<>>
    /\ doc' = <<template>>
    /\ pc' = "replace_body"
    /\ UNCHANGED vvars
    /\ UNCHANGED <<template, data, placeholders, placeholders_in_doc, message,
                   output_docx, output_pdf, conversion_error,
                   remaining_placeholders>>

\* replace_in_element(doc)
ReplaceBody ==
    /\ pc = "replace_body"
    /\ doc' = <<[doc[1] EXCEPT !.body = replace_in_element(@, data)]>>
    /\ pc' = "replace_sections"
    /\ UNCHANGED vvars
    /\ UNCHANGED <<template, data, placeholders, placeholders_in_doc, message,
                   output_docx, output_pdf, conversion_error,
                   remaining_placeholders>>

\* the headers and footers of every section
ReplaceSections ==
    /\ pc = "replace_sections"
    /\ doc' = <<[doc[1] EXCEPT !.sections = replace_in_sections(@, data)]>>
    /\ pc' = "replace_txbx"
    /\ UNCHANGED vvars
    /\ UNCHANGED <<template, data, placeholders, placeholders_in_doc, message,
                   output_docx, output_pdf, conversion_error,
                   remaining_placeholders>>

\* the paragraphs of every text box
ReplaceTextBoxes ==
    /\ pc = "replace_txbx"
    /\ doc' = <<[doc[1] EXCEPT !.txbx = replace_in_text_boxes(@, data)]>>
    /\ pc' = "remove_trailing"
    /\ UNCHANGED vvars
    /\ UNCHANGED <<template, data, placeholders, placeholders_in_doc, message,
                   output_docx, output_pdf, conversion_error,
                   remaining_placeholders>>

\* if the last body paragraph is empty, remove it
RemoveTrailing ==
    /\ pc = "remove_trailing"
    /\ doc' = <<[doc[1] EXCEPT
                   !.body.paragraphs = remove_trailing_paragraph(@)]>>
    /\ pc' = "save"
    /\ UNCHANGED vvars
    /\ UNCHANGED <<template, data, placeholders, placeholders_in_doc, message,
                   output_docx, output_pdf, conversion_error,
                   remaining_placeholders>>

\* doc.save(output_docx) succeeds
SaveDocument ==
    /\ pc = "save"
    /\ output_docx' = doc
    /\ pc' = "convert"
    /\ UNCHANGED vvars
    /\ UNCHANGED <<template, data, placeholders, placeholders_in_doc, message,
                   doc, output_pdf, conversion_error, remaining_placeholders>>

\* doc.save(output_docx) raises: the except clause of the try block prints
\* the conversion error and the function returns
SaveFails ==
    /\ pc = "save"
    /\ conversion_error' = TRUE
    /\ pc' = "returned"
    /\ UNCHANGED vvars
    /\ UNCHANGED <<template, data, placeholders, placeholders_in_doc, message,
                   doc, output_docx, output_pdf, remaining_placeholders>>

\* convert(output_docx, output_pdf) succeeds
Convert ==
    /\ pc = "convert"
    /\ output_pdf' = output_docx
    /\ pc' = "returned"
    /\ UNCHANGED vvars
    /\ UNCHANGED <<template, data, placeholders, placeholders_in_doc, message,
                   doc, output_docx, conversion_error, remaining_placeholders>>

\* convert(output_docx, output_pdf) raises: caught, printed, not re-raised
ConvertFails ==
    /\ pc = "convert"
    /\ conversion_error' = TRUE
    /\ pc' = "returned"
    /\ UNCHANGED vvars
    /\ UNCHANGED <<template, data, placeholders, placeholders_in_doc, message,
                   doc, output_docx, output_pdf, remaining_placeholders>>

\* remaining_placeholders = find_placeholders(output_docx_file)
VerifyOutput ==
    /\ pc = "returned"
    /\ output_docx # <<>>
    /\ remaining_placeholders' \in Orderings(find_placeholders(output_docx[1]))
    /\ pc' = "verified"
    /\ UNCHANGED vvars
    /\ UNCHANGED <<template, data, placeholders, placeholders_in_doc, message,
                   doc, output_docx, output_pdf, conversion_error>>

\* the verification opens an output file that was never written
VerifyFails ==
    /\ pc = "returned"
    /\ output_docx = <<>>
    /\ pc' = "unexpected_error"
    /\ UNCHANGED vvars
    /\ UNCHANGED <<template, data, placeholders, placeholders_in_doc, message,
                   doc, output_docx, output_pdf, conversion_error,
                   remaining_placeholders>>

\* ------------------------------------------------------ the voucher renderer
\* The canvas calls of create_voucher that read a file or the field map, in
\* the order they execute: <<"image", path>> is c.drawImage(path, ...) and
\* <<"value", key>> is c.drawString / c.drawRightString of data[key]. The
\* image files under resource/ ship with the program and are taken to be
\* readable; the labels, rectangles, lines and prose blocks between these
\* calls read nothing and cannot fail on the field map.
StatementsSwapped ==
    <<<<"image", "resource/cok_logo.png">>,
      <<"image", "resource/img_head.png">>,
      <<"value", "employee_name">>,
      <<"value", "po_number">>,
      <<"value", "employee_id">>,
      <<"value", "maximum_value">>,
      <<"value", "expiry_date">>,
      <<"image", "resource/img_boots.png">>,
      <<"value", "date_voucher_issued">>,
      <<"value", "time_issued">>,
      <<"value", "division">>,
      <<"value", "cost_centre">>,
      <<"value", "issued_by">>,
      <<"value", "gl">>,
      <<"image", "resource/img_mister_safety_shoes.png">>,
      <<"image", "resource/img_cok100.png">>,
      <<"image", "resource/img_work_authority.png">>,
      <<"image", "resource/img_112934.png">>,
      <<"image", "resource/img_marks.png">>,
      <<"image", "resource/img_acct.png">>>>

Statements ==
    <<<<"image", "resource/cok_logo.png">>,
      <<"image", "resource/img_head.png">>,
      <<"value", "employee_name">>,
      <<"value", "po_number">>,
      <<"value", "employee_id">>,
      <<"value", "maximum_value">>,
      <<"value", "expiry_date">>,
      <<"image", "resource/img_boots.png">>,
      <<"value", "date_voucher_issued">>,
      <<"value", "time_issued">>,
      <<"value", "division">>,
      <<"value", "cost_centre">>,
      <<"value", "gl">>,
      <<"value", "issued_by">>,
      <<"image", "resource/img_mister_safety_shoes.png">>,
      <<"image", "resource/img_cok100.png">>,
      <<"image", "resource/img_work_authority.png">>,
      <<"image", "resource/img_112934.png">>,
      <<"image", "resource/img_marks.png">>,
      <<"image", "resource/img_acct.png">>>>

\* the keys the draw calls look up
DrawnFields ==
    {"employee_name", "po_number", "employee_id", "maximum_value",
     "expiry_date", "date_voucher_issued", "time_issued", "division",
     "cost_centre", "gl", "issued_by"}

\* the keys of the sample field map
FieldNames == DrawnFields \cup {"for_internal_use_only"}

EmployeeNames == {<<"J", "o", "h", "n", " ", "D", "o", "e">>, <<"A", " ", " ", "B">>}

FilePrefix ==
    <<"B","o","o","t","B","u","d","d","y","_","V","o","u","c","h","e","r","_">>

FileSuffix == <<".", "p", "d", "f">>

\* f"BootBuddy_Voucher_{data['employee_name'].replace(' ', '_')}.pdf"
voucher_filename(employee_name) ==
    FilePrefix \o StrReplace(employee_name, <<" ">>, <<"_">>) \o FileSuffix

VoucherData ==
    UNION {[present ->  {<<"x">>}] : present \in SUBSET (FieldNames \ {"employee_name"})}
    \cup UNION {{[k \in present \cup {"employee_name"} |->
                     IF k = "employee_name" THEN n ELSE <<"x">>] :
                     n \in EmployeeNames} :
                    present \in SUBSET (FieldNames \ {"employee_name"})}

VIdle ==
    /\ vdata = [k \in {} |-> <<>>]
    /\ vpc = "idle"
    /\ vstep = 1
    /\ drawn = <<>>
    /\ verror = <<>>
    /\ filename = <<>>
    /\ saved = <<>>

VInit ==
    /\ vdata \in VoucherData
    /\ vpc = "create"
    /\ vstep = 1
    /\ drawn = <<>>
    /\ verror = <<>>
    /\ filename = <<>>
    /\ saved = <<>>

\* c = canvas.Canvas(f"BootBuddy_Voucher_{...}.pdf", pagesize=letter)
CreateCanvas ==
    /\ vpc = "create"
    /\ "employee_name" \in DOMAIN vdata
    /\ filename' = voucher_filename(vdata["employee_name"])
    /\ vpc' = "draw"
    /\ UNCHANGED tvars
    /\ UNCHANGED <<vdata, vstep, drawn, verror, saved>>

\* data['employee_name'] raises KeyError before the canvas exists
CreateCanvasKeyError ==
    /\ vpc = "create"
    /\ "employee_name" \notin DOMAIN vdata
    /\ verror' = <<"KeyError", "employee_name">>
    /\ vpc' = "failed"
    /\ UNCHANGED tvars
    /\ UNCHANGED <<vdata, vstep, drawn, filename, saved>>

\* the next statement is a c.drawImage
DrawImage ==
    /\ vpc = "draw"
    /\ vstep <= Len(Statements)
    /\ Statements[vstep][1] = "image"
    /\ drawn' = Append(drawn, Statements[vstep])
    /\ vstep' = vstep + 1
    /\ UNCHANGED tvars
    /\ UNCHANGED <<vdata, vpc, verror, filename, saved>>

\* the next statement is a c.drawRightString / c.drawString of a data[...]
\* value that is there
DrawValue ==
    /\ vpc = "draw"
    /\ vstep <= Len(Statements)
    /\ Statements[vstep][1] = "value"
    /\ Statements[vstep][2] \in DOMAIN vdata
    /\ drawn' = Append(drawn, Statements[vstep])
    /\ vstep' = vstep + 1
    /\ UNCHANGED tvars
    /\ UNCHANGED <<vdata, vpc, verror, filename, saved>>

\* the lookup of the value to draw raises KeyError
DrawValueKeyError ==
    /\ vpc = "draw"
    /\ vstep <= Len(Statements)
    /\ Statements[vstep][1] = "value"
    /\ Statements[vstep][2] \notin DOMAIN vdata
    /\ verror' = <<"KeyError", Statements[vstep][2]>>
    /\ vpc' = "failed"
    /\ UNCHANGED tvars
    /\ UNCHANGED <<vdata, vstep, drawn, filename, saved>>

\* c.save()
SaveCanvas ==
    /\ vpc = "draw"
    /\ vstep > Len(Statements)
    /\ saved' = <<filename>>
    /\ vpc' = "done"
    /\ UNCHANGED tvars
    /\ UNCHANGED <<vdata, vstep, drawn, verror, filename>>

\* ----------------------------------------------------------- specifications
Init == TInit /\ VIdle

Next ==
    \/ MainAnalyze
    \/ ScanTemplate
    \/ RaiseMissing
    \/ OpenTemplate
    \/ ReplaceBody
    \/ ReplaceSections
    \/ ReplaceTextBoxes
    \/ RemoveTrailing
    \/ SaveDocument
    \/ SaveFails
    \/ Convert
    \/ ConvertFails
    \/ VerifyOutput
    \/ VerifyFails

\* the template filler
Spec == Init /\ [][Next]_vars

VoucherInit == VInit /\ TIdle

VoucherNext ==
    \/ CreateCanvas
    \/ CreateCanvasKeyError
    \/ DrawImage
    \/ DrawValue
    \/ DrawValueKeyError
    \/ SaveCanvas

\* the voucher renderer
SpecVoucher == VoucherInit /\ [][VoucherNext]_vars

\* ------------------------------------------------- what the claims speak of
RECURSIVE ElementParagraphs(_)
\* the paragraphs of an element in the order the traversals visit them
ElementParagraphs(element) ==
    element.paragraphs
    \o Concat([t \in 1..Len(element.tables) |->
                 Concat([r \in 1..Len(element.tables[t]) |->
                           Concat([c \in 1..Len(element.tables[t][r]) |->
                                     ElementParagraphs(element.tables[t][r][c])])])])

\* every scanned paragraph of a document: body, table cells, headers,
\* footers, text boxes
AllParagraphs(document) ==
    ElementParagraphs(document.body)
    \o Concat([i \in 1..Len(document.sections) |->
                 ElementParagraphs(document.sections[i].header)
                 \o ElementParagraphs(document.sections[i].footer)])
    \o Concat(document.txbx)

\* the value a field map gives a key
ValueOf(d, key) == d[CHOOSE i \in 1..Len(d) : d[i][1] = key][2]

RECURSIVE TokenExactFrom(_, _, _)
TokenExactFrom(s, d, i) ==
    IF i > Len(s) THEN <<>>
    ELSE IF MatchesAt(s, i)
         THEN ValueOf(d, SubSeq(s, i, MatchEnd(s, i + 2) - 1))
                  \o TokenExactFrom(s, d, MatchEnd(s, i + 2))
         ELSE <<s[i]>> \o TokenExactFrom(s, d, i + 1)

\* s with every maximal match of the placeholder pattern replaced by the
\* value the field map gives that exact token
TokenExact(s, d) == TokenExactFrom(s, d, 1)

RECURSIVE SplitFrom(_, _, _, _)
SplitFrom(s, sep, i, cur) ==
    IF i > Len(s) THEN <<cur>>
    ELSE IF OccursAt(s, sep, i)
         THEN <<cur>> \o SplitFrom(s, sep, i + Len(sep), <<>>)
         ELSE SplitFrom(s, sep, i + 1, Append(cur, s[i]))

\* the items of a separated list
SplitList(s, sep) == SplitFrom(s, sep, 1, <<>>)

AllSpace(s) == \A i \in 1..Len(s) : IsSpace(s[i])

\* the discovered tokens the field map has no key for
Missing == find_placeholders(template) \ Keys(data)

\* the tokens a ValueError message lists after its fixed prefix
ListedInMessage ==
    SplitList(SubSeq(message, Len(MissingPrefix) + 1, Len(message)), <<",", " ">>)

\* the run past the check for missing data
PastCheck == pc \notin {"idle", "analyze", "scan", "check", "ValueError"}

\* C1: whenever the field map has a key for every token of the template, the
\* scan of the saved output finds no token at all.
C1_NoLeftoverTokens ==
    (pc = "verified" /\ find_placeholders(template) \subseteq Keys(data))
        => remaining_placeholders = <<>>

\* C2: the missing-data error is raised exactly when some discovered token
\* has no key, and its message lists the missing tokens, all of them, only
\* them, each once.
C2_MissingListedExactly ==
    /\ pc = "ValueError" =>
           /\ Missing # {}
           /\ SubSeq(message, 1, Len(MissingPrefix)) = MissingPrefix
           /\ ToSet(ListedInMessage) = Missing
           /\ NoDup(ListedInMessage)
    /\ PastCheck => Missing = {}

C2_Witness ==
    /\ pc = "ValueError"
    /\ Cardinality(find_placeholders(template)) = 2
    /\ Cardinality(Missing) = 1

\* C3: a run that fails with the missing-data error has opened no document
\* for editing, saved nothing and converted nothing; the rewrite, save and
\* convert steps are reached only with a key for every discovered token.
C3_NothingChangedOnError ==
    /\ pc = "ValueError" =>
           /\ doc = <<>>
           /\ output_docx = <<>>
           /\ output_pdf = <<>>
           /\ conversion_error = FALSE
    /\ (doc # <<>> \/ output_docx # <<>> \/ output_pdf # <<>>) => Missing = {}

C3_Witness ==
    /\ pc = "ValueError"
    /\ Keys(data) \cap find_placeholders(template) # {}

\* C4: a reported conversion error never coincides with an unsaved edited
\* document.
C4_ReportedErrorAfterSave == conversion_error => output_docx # <<>>

\* C5: a paragraph that is one token split across several runs has that token
\* discovered by the scan, and after the rewrite its text is the token's value.
C5_SplitTokenReplaced ==
    \A i \in 1..Len(AllParagraphs(template)) :
        LET runs == AllParagraphs(template)[i]
            text == Concat(runs)
        IN (/\ Len(runs) >= 2
            /\ \A j \in 1..Len(runs) : runs[j] # <<>>
            /\ PLACEHOLDER_REGEX_findall(text) = <<text>>)
           => /\ pc \notin {"analyze", "scan"} => text \in ToSet(placeholders_in_doc)
              /\ pc = "remove_trailing" =>
                     Concat(AllParagraphs(doc[1])[i]) = ValueOf(data, text)

C8_RunsCollapsed ==
    pc = "remove_trailing" =>
        \A i \in 1..Len(AllParagraphs(template)) :
            LET old == AllParagraphs(template)[i]
                new == AllParagraphs(doc[1])[i]
            IN (\E k \in Keys(data) : Contains(Concat(old), k))
               => /\ Len(new) = Len(old)
                  /\ new[1] = replace_each_key(Concat(old), data)
                  /\ \A j \in 2..Len(new) : new[j] = <<>>

C8_Witness ==
    /\ pc = "remove_trailing"
    /\ \E i \in 1..Len(AllParagraphs(template)) :
           LET old == AllParagraphs(template)[i]
           IN /\ Len(old) = 2
              /\ old[2] # <<>>
              /\ \E k \in Keys(data) : Contains(Concat(old), k)
              /\ AllParagraphs(doc[1])[i] # old

\* the body paragraphs as the rewrite pass leaves them
RewrittenBody == replace_in_element(template.body, data).paragraphs

\* C9 as stated: the saved document never ends with an empty body paragraph.
C9_SavedNeverEndsEmpty ==
    output_docx # <<>> =>
        LET body == output_docx[1].body.paragraphs
        IN body = <<>> \/ ~AllSpace(Concat(body[Len(body)]))

\* C9 amended: the trailing-paragraph step removes the last body paragraph
\* when its text is empty or whitespace-only and nothing otherwise, one
\* paragraph at most, and the document is saved as that step left it.
C9_OneTrailingRemoved ==
    /\ (pc = "save" \/ output_docx # <<>>) =>
           LET pre == RewrittenBody
               post == doc[1].body.paragraphs
           IN /\ IF pre # <<>> /\ AllSpace(Concat(pre[Len(pre)]))
                 THEN post = SubSeq(pre, 1, Len(pre) - 1)
                 ELSE post = pre
              /\ Len(pre) - Len(post) <= 1
    /\ output_docx # <<>> => output_docx = doc

C9_Witness ==
    /\ output_docx # <<>>
    /\ Len(RewrittenBody) = 2
    /\ AllSpace(Concat(RewrittenBody[1]))
    /\ AllSpace(Concat(RewrittenBody[2]))
    /\ Len(output_docx[1].body.paragraphs) = 1

\* C10: after the rewrite every paragraph's text is its template text with
\* each maximal token replaced by the value of that exact token.
C10_TokenExact ==
    pc = "remove_trailing" =>
        \A i \in 1..Len(AllParagraphs(template)) :
            Concat(AllParagraphs(doc[1])[i])
                = TokenExact(Concat(AllParagraphs(template)[i]), data)

\* the field map lacks "gl" and no other key that is drawn
OnlyGlMissing == DrawnFields \ DOMAIN vdata = {"gl"}

\* the keys of the values drawn so far, in order
ValuesDrawn ==
    LET vals == SelectSeq(drawn, LAMBDA st : st[1] = "value")
    IN [i \in 1..Len(vals) |-> vals[i][2]]

\* C7: without "gl" the renderer fails with KeyError at the GL draw, after
\* the nine draws before it; issued_by is never drawn and nothing is saved.
C7_FailsAtGl ==
    OnlyGlMissing =>
        /\ saved = <<>>
        /\ vpc # "done"
        /\ "issued_by" \notin ToSet(ValuesDrawn)
        /\ verror = <<>> => ENABLED VoucherNext
        /\ verror # <<>> =>
               /\ verror = <<"KeyError", "gl">>
               /\ ValuesDrawn =
                      <<"employee_name", "po_number", "employee_id",
                        "maximum_value", "expiry_date", "date_voucher_issued",
                        "time_issued", "division", "cost_centre">>

C7_Witness == OnlyGlMissing /\ vpc = "failed"
=============================================================================
